---- MODULE Spec2Model ----
\* A model of pyfolding/ising.py: the Ising domain classes, the global fit
\* wrapper (GlobalFitWrapper), the transfer-matrix partition function
\* (IsingPartitionFunction), calculate_error_from_jacobian and the control
\* flow of fit_heteropolymer.
\*
\* Real numbers are modelled exactly: parameter values and bounds are integers
\* (hundredths), statistical weights are rationals <<numerator, denominator>>.
EXTENDS Integers, Sequences, FiniteSets, TLC

VARIABLES
    \* ---- the fit session (a GlobalFitWrapper and the objects it created)
    objs,           \* the heap: objs[id] is the object with identity id
    domains,        \* GlobalFitWrapper.domains: references (ids) into objs
    domain_types,   \* GlobalFitWrapper.domain_types: the type tags registered
    proteins,       \* GlobalFitWrapper.proteins
    last,           \* the last call made on the session, its vector x, how it ended
    \* ---- one IsingPartitionFunction under evaluation at a fixed x
    pf,             \* the object: its topology (domains with their weights) and n
    out,            \* the last method called on pf and what it returned
    \* ---- calculate_error_from_jacobian
    jac,            \* the Jacobian it was given
    r_err,          \* what it returned, or the exception it raised
    \* ---- one run of fit_heteropolymer
    fit,            \* where the run is, and its locals
    calls           \* the optimisation and estimation stages entered, in order

session == <<objs, domains, domain_types, proteins, last>>
pfvars == <<pf, out>>
errvars == <<jac, r_err>>
fitvars == <<fit, calls>>
vars == <<objs, domains, domain_types, proteins, last, pf, out, jac, r_err, fit, calls>>

\* ------------------------------------------------------------------ bounds
MaxCurves == 2      \* curves appended to one session
MaxTopoLen == 2     \* tags in one topology
MaxVal == 0         \* parameter vectors start at 0..MaxVal
MaxN == 2           \* domains in a topology whose partition function is evaluated
MaxE == 1           \* intrinsic weights are 0 and 2^e, e in -MaxE..MaxE
MaxRows == 2        \* rows (residual observations) of a Jacobian
MaxCols == 2        \* columns (free parameters) of a Jacobian
MaxJ == 1           \* entries of a Jacobian are in -MaxJ..MaxJ
MaxIter == 2        \* iterations of the global search that report progress

\* ------------------------------------------------------ module-level tables
\* PARAMETER_LABELS, indexed from 0 as in the source.
PARAMETER_LABELS == [i \in 0..3 |->
    CASE i = 0 -> "DG_i" [] i = 1 -> "DG_ij" [] i = 2 -> "m_i" [] OTHER -> "m_ij"]

\* ACCEPTABLE_BOUNDS in hundredths: ((-2,15),(-15,2),(-3,-.01),(-3,-.01)).
ACCEPTABLE_BOUNDS == [i \in 0..3 |->
    CASE i = 0 -> <<-200, 1500>> [] i = 1 -> <<-1500, 200>>
      [] i = 2 -> <<-300, -1>> [] OTHER -> <<-300, -1>>]

\* ------------------------------------------------------------- domain types
\* The tags a caller can put in a topology: the classes derived from
\* IsingDomain, a class that is not an IsingDomain, and a value that cannot be
\* called at all.
ChainTypes == {"RepeatDomain"}
CapTypes == {"CapDomain"}
DomainTypes == ChainTypes \cup CapTypes
Tags == DomainTypes \cup {"object", "NotCallable"}

Callable(tag) == tag # "NotCallable"

\* used_variables as set by IsingDomain.__init__ and overridden by the caps.
used_variables(cls) == IF cls \in CapTypes THEN <<0, 2>> ELSE <<0, 1, 2>>

\* domain.name as set by each subclass constructor.
name(cls) ==
    CASE cls = "RepeatDomain" -> "Repeat"
      [] cls = "CapDomain" -> "Cap"

\* tag(): a fresh instance. IsingDomain.__init__ sets the four parameters (in
\* hundredths: 2., -4., -.5, -.5); an object() has no fields at all.
NewInstance(tag) ==
    IF tag \in DomainTypes
    THEN [cls |-> tag, DG_i |-> 200, DG_ij |-> -400, m_i |-> -50, m_ij |-> -50]
    ELSE [cls |-> tag]

\* isinstance(o, IsingDomain)
IsIsingDomain(o) == o.cls \in DomainTypes

\* IsingDomain.labels
labels(o) ==
    [k \in 1..Len(used_variables(o.cls)) |-> PARAMETER_LABELS[used_variables(o.cls)[k]]]

\* The getter without the restriction to used_variables.
domain_bounds_unrestricted(o) == [k \in 1..4 |-> ACCEPTABLE_BOUNDS[k - 1]]

\* IsingDomain.bounds (the getter)
domain_bounds(o) ==
    [k \in 1..Len(used_variables(o.cls)) |-> ACCEPTABLE_BOUNDS[used_variables(o.cls)[k]]]

\* ------------------------------------------------------------------ helpers
RECURSIVE Flatten(_)
Flatten(ss) == IF ss = <<>> THEN <<>> ELSE Head(ss) \o Flatten(Tail(ss))

\* list.index: the first position holding x
IndexOf(s, x) == CHOOSE i \in 1..Len(s) : s[i] = x /\ \A j \in 1..(i-1) : s[j] # x

InList(s, x) == \E i \in 1..Len(s) : s[i] = x

SeqsUpTo(S, n) == UNION {[1..k -> S] : k \in 0..n}

\* ------------------------------------------------- GlobalFitWrapper.append
\* The loop over the topology: st carries the heap, the two registries, the
\* q_topology built so far and the exception raised, if any.
\* A lookup that never finds the type: every tag gets a new instance.
Registered_never(types, domain) == FALSE

\* domain in self.domain_types
Registered(types, domain) == InList(types, domain)

RECURSIVE RegisterDomains(_, _)
RegisterDomains(st, topology) ==
    IF topology = <<>> \/ st.err # "ok" THEN st
    ELSE LET domain == Head(topology) IN
         IF Registered(st.domain_types, domain)
         THEN RegisterDomains(
                [st EXCEPT !.q_topology =
                    Append(@, st.domains[IndexOf(st.domain_types, domain)])],
                Tail(topology))
         ELSE IF ~Callable(domain)
         THEN [st EXCEPT !.err = "TypeError"]
         ELSE LET id == Len(st.objs) + 1 IN
              RegisterDomains(
                [st EXCEPT !.objs = Append(@, NewInstance(domain)),
                           !.domains = Append(@, id),
                           !.domain_types = Append(@, domain),
                           !.q_topology = Append(@, id)],
                Tail(topology))

\* IsingPartitionFunction.__init__ on a list of references: the error raised.
PartitionInitError(heap, topology) ==
    IF \E i \in 1..Len(topology) : ~IsIsingDomain(heap[topology[i]])
    THEN "TypeError" ELSE "ok"

\* The whole of append(curve, topology): the session after the call and the
\* exception it ended with ("ok" when it returned).
AppendResult(s, curve, topology) ==
    IF curve # "EquilibriumDenaturationCurve"
    THEN [s EXCEPT !.err = "TypeError"]
    ELSE IF ~topology.iterable
    THEN [s EXCEPT !.err = "TypeError"]
    ELSE LET st == RegisterDomains(
                     [objs |-> s.objs, domains |-> s.domains,
                      domain_types |-> s.domain_types,
                      q_topology |-> <<>>, err |-> "ok"], topology.items)
             reg == [s EXCEPT !.objs = st.objs, !.domains = st.domains,
                              !.domain_types = st.domain_types]
         IN IF st.err # "ok" THEN [reg EXCEPT !.err = st.err]
            ELSE IF PartitionInitError(st.objs, st.q_topology) # "ok"
            THEN [reg EXCEPT !.err = PartitionInitError(st.objs, st.q_topology)]
            ELSE [reg EXCEPT !.proteins = Append(@,
                        [n |-> Len(st.q_topology), curve |-> curve,
                         partition |-> st.q_topology]),
                      !.err = "ok"]

Session == [objs |-> objs, domains |-> domains, domain_types |-> domain_types,
            proteins |-> proteins, err |-> "ok"]

\* The topology argument: a list of tags, or a value that cannot be iterated.
\* A tag that is not a domain class is tried as the last of a list: the loop
\* stops at a tag that cannot be called, and a list with such a tag in the
\* middle leaves the session that the list cut in two leaves.
TopologyInputs ==
    {[iterable |-> TRUE, items |-> t] :
        t \in {u \in SeqsUpTo(Tags, MaxTopoLen) :
                 \A i \in 1..(Len(u) - 1) : u[i] \in DomainTypes}}
        \cup {[iterable |-> FALSE, items |-> <<>>]}

Append_(curve, topology) ==
    /\ Len(proteins) < MaxCurves
    /\ LET r == AppendResult(Session, curve, topology) IN
        /\ objs' = r.objs
        /\ domains' = r.domains
        /\ domain_types' = r.domain_types
        /\ proteins' = r.proteins
        /\ last' = [op |-> "append", err |-> r.err, x |-> <<>>]
    /\ UNCHANGED <<pfvars, errvars, fitvars>>

\* A curve of the wrong type is refused before the topology is read, so one
\* topology stands for all of them there.
DoAppend ==
    \/ \E topology \in TopologyInputs : Append_("EquilibriumDenaturationCurve", topology)
    \/ Append_("ndarray", [iterable |-> TRUE, items |-> <<"RepeatDomain">>])

\* ----------------------------------------------- GlobalFitWrapper.__call__
\* for p in domain.labels: setattr(domain, p, p_val.next()) on one domain:
\* st carries the object, what is left of the iterator and the exception.
RECURSIVE SetLabels(_, _)
SetLabels(st, ls) ==
    IF ls = <<>> \/ st.err # "ok" THEN st
    ELSE IF st.x = <<>> THEN [st EXCEPT !.err = "StopIteration"]
    ELSE SetLabels([st EXCEPT !.obj = [@ EXCEPT ![Head(ls)] = Head(st.x)],
                              !.x = Tail(@)],
                   Tail(ls))

\* for idx, domain in enumerate(self.domains): one iterator over x is shared
\* by all the domains. An object that is not an IsingDomain has no labels.
\* The loop with a new iterator over x for every domain.
RECURSIVE AssignParams_restart(_, _)
AssignParams_restart(st, ds) ==
    IF ds = <<>> \/ st.err # "ok" THEN st
    ELSE LET id == Head(ds) IN
         IF ~IsIsingDomain(st.objs[id])
         THEN [st EXCEPT !.err = "AttributeError"]
         ELSE LET r == SetLabels([obj |-> st.objs[id], x |-> st.x, err |-> "ok"],
                                 labels(st.objs[id]))
              IN AssignParams_restart([st EXCEPT !.objs = [@ EXCEPT ![id] = r.obj],
                                                 !.err = r.err],
                                      Tail(ds))

RECURSIVE AssignParams(_, _)
AssignParams(st, ds) ==
    IF ds = <<>> \/ st.err # "ok" THEN st
    ELSE LET id == Head(ds) IN
         IF ~IsIsingDomain(st.objs[id])
         THEN [st EXCEPT !.err = "AttributeError"]
         ELSE LET r == SetLabels([obj |-> st.objs[id], x |-> st.x, err |-> "ok"],
                                 labels(st.objs[id]))
              IN AssignParams([st EXCEPT !.objs = [@ EXCEPT ![id] = r.obj],
                                         !.x = r.x, !.err = r.err],
                              Tail(ds))

\* The whole of __call__(x): the session after the call and the exception it
\* ended with. The residual sum that follows the assignment reads the domains
\* and writes nothing.
\* __call__ with the test for an empty session after the assignment.
CallResult_checkLate(s, x) ==
    LET st == AssignParams([objs |-> s.objs, x |-> x, err |-> "ok"], s.domains)
    IN IF Len(s.proteins) < 1
       THEN [s EXCEPT !.objs = st.objs, !.err = "ValueError"]
       ELSE [s EXCEPT !.objs = st.objs, !.err = st.err]

CallResult(s, x) ==
    IF Len(s.proteins) < 1
    THEN [s EXCEPT !.err = "ValueError"]
    ELSE LET st == AssignParams([objs |-> s.objs, x |-> x, err |-> "ok"], s.domains)
         IN [s EXCEPT !.objs = st.objs, !.err = st.err]

\* GlobalFitWrapper.bounds and GlobalFitWrapper.domain_params raise
\* AttributeError on a registered object that is not an IsingDomain.
PropertyError(s) ==
    IF \E k \in 1..Len(s.domains) : ~IsIsingDomain(s.objs[s.domains[k]])
    THEN "AttributeError" ELSE "ok"

\* GlobalFitWrapper.bounds
bounds(s) == Flatten([k \in 1..Len(s.domains) |-> domain_bounds(s.objs[s.domains[k]])])

\* GlobalFitWrapper.domain_params: domain.name + " " + l, kept as the pair
\* <<name, label>> (no name and no label holds a space).
domain_params(s) ==
    Flatten([k \in 1..Len(s.domains) |->
        LET o == s.objs[s.domains[k]] IN
        [j \in 1..Len(labels(o)) |-> <<name(o.cls), labels(o)[j]>>]])

\* The parameter vectors tried: x[k] = c + k - 1, of the expected length, one
\* short and one long.
ExpectedLen(s) ==
    Len(Flatten([k \in 1..Len(s.domains) |->
        IF IsIsingDomain(s.objs[s.domains[k]])
        THEN labels(s.objs[s.domains[k]]) ELSE <<>>]))

ParamVectors(n) ==
    {[k \in 1..m |-> c + k - 1] : m \in {j \in (n-1)..(n+1) : j >= 0}, c \in 0..MaxVal}

Call(x) ==
    /\ LET r == CallResult(Session, x) IN
        /\ objs' = r.objs
        /\ last' = [op |-> "call", err |-> r.err, x |-> x]
    /\ UNCHANGED <<domains, domain_types, proteins>>
    /\ UNCHANGED <<pfvars, errvars, fitvars>>

DoCall == \E x \in ParamVectors(ExpectedLen(Session)) : Call(x)

\* GlobalFitWrapper.__init__
SessionInit ==
    /\ objs = <<>>
    /\ domains = <<>>
    /\ domain_types = <<>>
    /\ proteins = <<>>
    /\ last = [op |-> "init", err |-> "ok", x |-> <<>>]

\* No partition function has been built.
PFNone ==
    /\ pf = [built |-> FALSE, topology |-> <<>>, n |-> 0]
    /\ out = [fn |-> "none", err |-> "ok", nan |-> FALSE, value |-> <<0, 1>>]

\* calculate_error_from_jacobian has not been called.
ErrNone ==
    /\ jac = [ndim |-> 0, data |-> <<>>]
    /\ r_err = [err |-> "none", errors |-> <<>>]

\* fit_heteropolymer has not been called.
FitIdle ==
    /\ fit = [pc |-> "idle", pending |-> <<>>, ncurves |-> 0, popsize |-> 0,
              callback |-> FALSE, iter |-> 0, searched |-> FALSE,
              r |-> [success |-> FALSE, has_jac |-> FALSE], result |-> "none"]
    /\ calls = <<>>

\* The fit session: appends and objective evaluations in any order.
Init == SessionInit /\ PFNone /\ ErrNone /\ FitIdle

Next == DoAppend \/ DoCall

Spec == Init /\ [][Next]_vars

\* ------------------------------------------------ exact rational numbers
RECURSIVE GCD(_, _)
GCD(a, b) == IF b = 0 THEN a ELSE GCD(b, a % b)

Abs(a) == IF a < 0 THEN -a ELSE a

\* n/d in lowest terms with a positive denominator
Rat(n, d) ==
    LET g == GCD(Abs(n), Abs(d))
        sgn == IF d < 0 THEN -1 ELSE 1
    IN <<sgn * (n \div g), sgn * (d \div g)>>

RAdd(a, b) == Rat(a[1] * b[2] + b[1] * a[2], a[2] * b[2])
RSub(a, b) == Rat(a[1] * b[2] - b[1] * a[2], a[2] * b[2])
RMul(a, b) == Rat(a[1] * b[1], a[2] * b[2])
RDiv(a, b) == Rat(a[1] * b[2], a[2] * b[1])
RLe(a, b) == a[1] * b[2] <= b[1] * a[2]
RInt(n) == <<n, 1>>

RECURSIVE Pow2(_)
Pow2(e) == IF e = 0 THEN 1 ELSE 2 * Pow2(e - 1)

\* ------------------------------------------------ IsingPartitionFunction
\* IsingDomain.q_i: the 2x2 matrix of q_func, [[kappa*tau, folded],[kappa,
\* folded]], and for the caps [[kappa, folded],[kappa, folded]]. kappa and tau
\* are the values of kappa(x) and tau(x) at the x of the evaluation.
q_i(d, folded) ==
    IF d.cls \in CapTypes
    THEN <<<<d.kappa, folded>>, <<d.kappa, folded>>>>
    ELSE <<<<RMul(d.kappa, d.tau), folded>>, <<d.kappa, folded>>>>

\* row vector times 2x2 matrix
RowTimes(v, m) ==
    <<RAdd(RMul(v[1], m[1][1]), RMul(v[2], m[2][1])),
      RAdd(RMul(v[1], m[1][2]), RMul(v[2], m[2][2]))>>

\* q_i = q_i * domain.q_i(x, folded=folded[i]) for i = k..n
RECURSIVE Chain(_, _, _, _)
Chain(row, topology, folded, k) ==
    IF k > Len(topology) THEN row
    ELSE Chain(RowTimes(row, q_i(topology[k], folded[k])), topology, folded, k + 1)

\* partition(x, folded): an empty folded vector stands for all ones.
partition(topology, folded) ==
    LET f == IF Len(folded) = 0 THEN [k \in 1..Len(topology) |-> RInt(1)] ELSE folded
        row == Chain(<<RInt(0), RInt(1)>>, topology, f, 1)
    IN RAdd(row[1], row[2])

\* subpartition(x, i, rev), i counted from 1 here
subpartition(topology, i, rev) ==
    LET folded == [k \in 1..Len(topology) |-> IF k = i THEN RInt(0) ELSE RInt(1)]
    IN partition(topology,
                 IF rev THEN [k \in 1..Len(topology) |-> RSub(RInt(1), folded[k])]
                 ELSE folded)

RECURSIVE SumSub(_, _)
SumSub(topology, i) ==
    IF i = 0 THEN RInt(0)
    ELSE RAdd(SumSub(topology, i - 1), subpartition(topology, i, FALSE))

\* theta without the n in the denominator
theta_noN(topology) ==
    LET q_n == partition(topology, <<>>)
        sum_q_i == SumSub(topology, Len(topology))
    IN IF Len(topology) = 0 THEN [nan |-> TRUE, value |-> <<0, 1>>]
       ELSE [nan |-> FALSE, value |-> RSub(RInt(1), RDiv(sum_q_i, q_n))]

\* theta without the final complement
theta_noComplement(topology) ==
    LET q_n == partition(topology, <<>>)
        sum_q_i == SumSub(topology, Len(topology))
        den == RMul(RInt(Len(topology)), q_n)
    IN IF den[1] = 0 THEN [nan |-> TRUE, value |-> <<0, 1>>]
       ELSE [nan |-> FALSE, value |-> RDiv(sum_q_i, den)]

\* theta(x) = 1 - sum_q_i / (n * q_n); 0/0 is nan, and so is 1 - nan.
theta(topology) ==
    LET q_n == partition(topology, <<>>)
        sum_q_i == SumSub(topology, Len(topology))
        den == RMul(RInt(Len(topology)), q_n)
    IN IF den[1] = 0 THEN [nan |-> TRUE, value |-> <<0, 1>>]
       ELSE [nan |-> FALSE, value |-> RSub(RInt(1), RDiv(sum_q_i, den))]

\* The weights tried: kappa(x) is 0 (an underflow) or a power of two on either
\* side of 1, tau(x) is below or above 1.
KappaWeights == {RInt(0)} \cup {Rat(Pow2(e), 1) : e \in 0..MaxE}
                    \cup {Rat(1, Pow2(e)) : e \in 1..MaxE}
TauWeights == {Rat(1, 2), Rat(3, 1)}

\* The members a topology can hold: domain instances with their weights at x,
\* and an object that is not an IsingDomain. The q_func of a cap never calls
\* tau, so one value of it is tried there.
PFMembers ==
    {[cls |-> c, kappa |-> k, tau |-> t] :
        c \in ChainTypes, k \in KappaWeights, t \in TauWeights}
    \cup {[cls |-> c, kappa |-> k, tau |-> RInt(1)] : c \in CapTypes, k \in KappaWeights}
    \cup {[cls |-> "object", kappa |-> RInt(1), tau |-> RInt(1)]}

PFInputs ==
    {[isList |-> TRUE, items |-> t] : t \in SeqsUpTo(PFMembers, MaxN)}
        \cup {[isList |-> FALSE, items |-> <<>>]}

\* IsingPartitionFunction.__init__ and init_topology
PFInit(topology) ==
    /\ ~pf.built
    /\ IF ~topology.isList
          \/ \E i \in 1..Len(topology.items) : ~IsIsingDomain(topology.items[i])
       THEN /\ out' = [out EXCEPT !.fn = "__init__", !.err = "TypeError"]
            /\ pf' = pf
       ELSE /\ pf' = [built |-> TRUE, topology |-> topology.items,
                      n |-> Len(topology.items)]
            /\ out' = [out EXCEPT !.fn = "__init__", !.err = "ok"]
    /\ UNCHANGED <<session, errvars, fitvars>>

PFPartition ==
    /\ pf.built
    /\ out' = [fn |-> "partition", err |-> "ok", nan |-> FALSE,
               value |-> partition(pf.topology, <<>>)]
    /\ UNCHANGED <<pf, session, errvars, fitvars>>

PFSubpartition(i, rev) ==
    /\ pf.built
    /\ i \in 1..pf.n
    /\ out' = [fn |-> "subpartition", err |-> "ok", nan |-> FALSE,
               value |-> subpartition(pf.topology, i, rev)]
    /\ UNCHANGED <<pf, session, errvars, fitvars>>

PFTheta ==
    /\ pf.built
    /\ out' = [fn |-> "theta", err |-> "ok"] @@ theta(pf.topology)
    /\ UNCHANGED <<pf, session, errvars, fitvars>>

ThetaNext ==
    \/ \E t \in PFInputs : PFInit(t)
    \/ PFPartition
    \/ \E i \in 1..MaxN, rev \in BOOLEAN : PFSubpartition(i, rev)
    \/ PFTheta

\* One partition function built over any topology and evaluated.
ThetaInit == SessionInit /\ PFNone /\ ErrNone /\ FitIdle

SpecTheta == ThetaInit /\ [][ThetaNext]_vars

\* ------------------------------------------- calculate_error_from_jacobian
\* A Jacobian is [ndim, data]: with ndim = 1 data is a vector (a gradient, as
\* the optimizers return it), with ndim = 2 it is a list of rows, one row per
\* residual observation and one column per free parameter.

\* np.matrix(jac): a vector becomes a matrix of one row.
AsMatrix(j) == IF j.ndim = 1 THEN <<j.data>> ELSE j.data

NRows(m) == Len(m)
NCols(m) == Len(m[1])

\* np.dot(np.matrix(jac).T, np.matrix(jac))
JTJ(m) ==
    [a \in 1..NCols(m) |-> [b \in 1..NCols(m) |->
        LET S[k \in 0..NRows(m)] ==
                IF k = 0 THEN 0 ELSE S[k - 1] + m[k][a] * m[k][b]
        IN S[NRows(m)]]]

\* The matrix without row 1 and column c
Minor(m, c) ==
    [a \in 1..(Len(m) - 1) |-> [b \in 1..(Len(m) - 1) |->
        m[a + 1][IF b < c THEN b ELSE b + 1]]]

\* np.linalg.det, exactly: the expansion along the first row
RECURSIVE Det(_)
Det(m) ==
    IF Len(m) = 1 THEN m[1][1]
    ELSE LET S[c \in 0..Len(m)] ==
                 IF c = 0 THEN 0
                 ELSE S[c - 1] + (IF c % 2 = 1 THEN 1 ELSE -1) * m[1][c] * Det(Minor(m, c))
         IN S[Len(m)]

\* num_params = len(np.ravel(jac)): the number of entries of the Jacobian.
num_params(j) == NRows(AsMatrix(j)) * NCols(AsMatrix(j))

\* The whole function. With a zero determinant it returns num_params times
\* inf. Otherwise covar is the pseudo-inverse of JTJ, a square matrix with one
\* row per column of the Jacobian, and covar[p,p] is read for p in
\* range(num_params): an index past the last row raises IndexError. The
\* standard errors themselves (a square root of covar[p,p] times the variance
\* of the residuals) are kept as "finite".
ErrorsResult(j) ==
    IF Det(JTJ(AsMatrix(j))) = 0
    THEN [err |-> "ok", errors |-> [p \in 1..num_params(j) |-> "inf"]]
    ELSE IF num_params(j) > NCols(AsMatrix(j))
    THEN [err |-> "IndexError", errors |-> <<>>]
    ELSE [err |-> "ok", errors |-> [p \in 1..num_params(j) |-> "finite"]]

Vectors(n) == [1..n -> -MaxJ..MaxJ]

Jacobians ==
    {[ndim |-> 1, data |-> v] : v \in UNION {Vectors(c) : c \in 1..MaxCols}}
    \cup {[ndim |-> 2, data |-> m] :
            m \in UNION {[1..r -> Vectors(c)] : r \in 1..MaxRows, c \in 1..MaxCols}}

CalculateError(j) ==
    /\ jac' = j
    /\ r_err' = ErrorsResult(j)
    /\ UNCHANGED <<session, pfvars, fitvars>>

ErrNext == \E j \in Jacobians : CalculateError(j)

ErrInit == SessionInit /\ PFNone /\ ErrNone /\ FitIdle

\* calculate_error_from_jacobian called on any Jacobian.
SpecErr == ErrInit /\ [][ErrNext]_vars

\* ------------------------------------------------------- fit_heteropolymer
\* The topologies given to a fit.
FitTopologies ==
    {<<>>, <<"RepeatDomain">>, <<"CapDomain", "RepeatDomain">>, <<"RepeatDomain", "object">>}

\* The candidate vectors an optimizer evaluates: inside the box, here at its
\* lower or at its upper corner.
Corners(b) == {[k \in 1..Len(b) |-> b[k][1]], [k \in 1..Len(b) |-> b[k][2]]}

\* The refinement running when the search result has a Jacobian.
NeedsRefinement_inverted(r) == r.has_jac

\* not hasattr(r, 'jac')
NeedsRefinement(r) == ~r.has_jac

\* The two isinstance tests, then fit_func = GlobalFitWrapper() and the start
\* of the loop over zip(equilibrium_curves, topologies).
FitStart(curvesIsList, ncurves, topologiesIsList, topologies, popsize) ==
    /\ fit.pc = "idle"
    /\ IF ~curvesIsList \/ ~topologiesIsList
       THEN fit' = [fit EXCEPT !.pc = "raised"]
       ELSE fit' = [fit EXCEPT !.pc = "appending", !.ncurves = ncurves,
                               !.popsize = popsize,
                               !.pending = SubSeq(topologies, 1,
                                   IF ncurves < Len(topologies) THEN ncurves
                                   ELSE Len(topologies))]
    /\ UNCHANGED <<session, pfvars, errvars, calls>>

\* One turn of the loop: fit_func.append(protein, topology).
FitAppend ==
    /\ fit.pc = "appending"
    /\ fit.pending # <<>>
    /\ LET r == AppendResult(Session, "EquilibriumDenaturationCurve",
                             [iterable |-> TRUE, items |-> Head(fit.pending)]) IN
        /\ objs' = r.objs
        /\ domains' = r.domains
        /\ domain_types' = r.domain_types
        /\ proteins' = r.proteins
        /\ last' = [op |-> "append", err |-> r.err, x |-> <<>>]
        /\ fit' = [fit EXCEPT !.pending = Tail(@),
                              !.pc = IF r.err = "ok" THEN "appending" ELSE "raised"]
    /\ UNCHANGED <<pfvars, errvars, calls>>

\* The callback is chosen and differential_evolution is called with
\* fit_func.bounds.
FitSearch ==
    /\ fit.pc = "appending"
    /\ fit.pending = <<>>
    /\ fit' = [fit EXCEPT !.pc = "running",
                          !.callback = (fit.popsize > 10 \/ fit.ncurves > 1)]
    /\ calls' = Append(calls, "differential_evolution")
    /\ UNCHANGED <<session, pfvars, errvars>>

\* differential_evolution refuses an empty sequence of bounds (and the
\* objective itself raises ValueError on a session without curves).
SearchRaises ==
    /\ fit.pc = "running"
    /\ Len(bounds(Session)) = 0
    /\ fit' = [fit EXCEPT !.pc = "raised"]
    /\ UNCHANGED <<session, pfvars, errvars, calls>>

\* The optimizer that is running evaluates the objective at a candidate.
Evaluate(x) ==
    /\ fit.pc \in {"running", "refining"}
    /\ Len(bounds(Session)) > 0
    /\ LET r == CallResult(Session, x) IN
        /\ objs' = r.objs
        /\ last' = [op |-> "call", err |-> r.err, x |-> x]
        /\ fit' = [fit EXCEPT !.pc = IF r.err = "ok" THEN @ ELSE "raised"]
    /\ UNCHANGED <<domains, domain_types, proteins, pfvars, errvars, calls>>

\* FitProgress.__call__, once per iteration of the search: the counter. The
\* timing and the line printed every tenth call are not state.
Progress ==
    /\ fit.pc = "running"
    /\ Len(bounds(Session)) > 0
    /\ fit.callback
    /\ fit.iter < MaxIter
    /\ fit' = [fit EXCEPT !.iter = @ + 1]
    /\ UNCHANGED <<session, pfvars, errvars, calls>>

\* differential_evolution returns r: converged or not, with or without r.jac.
SearchReturns(success, has_jac) ==
    /\ fit.pc = "running"
    /\ Len(bounds(Session)) > 0
    /\ fit' = [fit EXCEPT !.pc = "searched", !.searched = TRUE,
                          !.r = [success |-> success, has_jac |-> has_jac]]
    /\ UNCHANGED <<session, pfvars, errvars, calls>>

\* if not r.success: return None; then the choice of the Jacobian.
AfterSearch ==
    /\ fit.pc = "searched"
    /\ IF ~fit.r.success
       THEN /\ fit' = [fit EXCEPT !.pc = "failed", !.result = "None"]
            /\ calls' = calls
       ELSE IF NeedsRefinement(fit.r)
       THEN /\ fit' = [fit EXCEPT !.pc = "refining"]
            /\ calls' = Append(calls, "minimize")
       ELSE /\ fit' = [fit EXCEPT !.pc = "estimating"]
            /\ calls' = calls
    /\ UNCHANGED <<session, pfvars, errvars>>

\* minimize(..., method='L-BFGS-B') returns r_min, which has a jac.
RefineReturns ==
    /\ fit.pc = "refining"
    /\ fit' = [fit EXCEPT !.pc = "estimating"]
    /\ calls' = Append(calls, "minimize returned")
    /\ UNCHANGED <<session, pfvars, errvars>>

\* calculate_fit_residuals, then calculate_error_from_jacobian on the gradient
\* g (one entry per free parameter), then the zipped result.
Estimate(g) ==
    /\ fit.pc = "estimating"
    /\ jac' = [ndim |-> 1, data |-> g]
    /\ r_err' = ErrorsResult([ndim |-> 1, data |-> g])
    /\ calls' = calls \o <<"calculate_fit_residuals", "calculate_error_from_jacobian">>
    /\ fit' = IF ErrorsResult([ndim |-> 1, data |-> g]).err = "ok"
              THEN [fit EXCEPT !.pc = "converged", !.result = "list"]
              ELSE [fit EXCEPT !.pc = "raised"]
    /\ UNCHANGED <<session, pfvars>>

FitNext ==
    \/ \E cl \in BOOLEAN, n \in 0..MaxCurves, tl \in BOOLEAN,
          ts \in SeqsUpTo(FitTopologies, MaxCurves), popsize \in {10, 20} :
            FitStart(cl, n, tl, ts, popsize)
    \/ FitAppend
    \/ FitSearch
    \/ SearchRaises
    \/ \E x \in Corners(bounds(Session)) : Evaluate(x)
    \/ Progress
    \/ \E success \in BOOLEAN, has_jac \in BOOLEAN : SearchReturns(success, has_jac)
    \/ AfterSearch
    \/ RefineReturns
    \/ \E c \in {0, 1} : Estimate([k \in 1..Len(bounds(Session)) |-> c])

FitInit == SessionInit /\ PFNone /\ ErrNone /\ FitIdle

\* One run of fit_heteropolymer, up to the result it returns.
SpecFit == FitInit /\ [][FitNext]_vars

\* ------------------------------------------------------------------ claims
\* The canonical slot order of the free labels, as the specification states it.
CanonicalLabels(cls) ==
    IF cls \in ChainTypes THEN <<"DG_i", "DG_ij", "m_i">> ELSE <<"DG_i", "m_i">>

\* The index into the four canonical slots that a label names.
SlotOf(label) == CHOOSE i \in 0..3 : PARAMETER_LABELS[i] = label

\* The registered domains walked in creation order, each with its canonical
\* free labels: one <<instance, label>> entry per free parameter.
CanonicalWalk ==
    Flatten([k \in 1..Len(domains) |->
        [j \in 1..Len(CanonicalLabels(objs[domains[k]].cls)) |->
            [id |-> domains[k], label |-> CanonicalLabels(objs[domains[k]].cls)[j]]]])

\* C1: the session holds one instance per registered type: domain_types has no
\* duplicates, domains and domain_types have equal length, domains[k] is a
\* distinct instance created from domain_types[k], and every entry of every
\* recorded topology is the one instance registered for its type.
C1_OneInstancePerType ==
    /\ \A i, j \in 1..Len(domain_types) : domain_types[i] = domain_types[j] => i = j
    /\ Len(domains) = Len(domain_types)
    /\ \A i, j \in 1..Len(domains) : domains[i] = domains[j] => i = j
    /\ \A k \in 1..Len(domains) : objs[domains[k]].cls = domain_types[k]
    /\ \A p \in 1..Len(proteins) : \A i \in 1..Len(proteins[p].partition) :
        \E k \in 1..Len(domains) :
            /\ proteins[p].partition[i] = domains[k]
            /\ \A q \in 1..Len(proteins) : \A j \in 1..Len(proteins[q].partition) :
                objs[proteins[q].partition[j]].cls = domain_types[k]
                    => proteins[q].partition[j] = domains[k]

\* Two curves are recorded, the same type occurs twice in one topology and
\* again in the other, and a second type is registered.
C1_Witness ==
    /\ Len(proteins) = 2
    /\ Len(domains) = 2
    /\ Len(proteins[1].partition) = 2
    /\ proteins[1].partition[1] = proteins[1].partition[2]
    /\ \E j \in 1..Len(proteins[2].partition) :
        proteins[2].partition[j] = proteins[1].partition[1]

\* C2: a call that is given a vector of exactly the expected length and returns
\* leaves, for every k, x[k] in the field of the k-th entry of the canonical
\* walk, and the k-th entry of domain_params names that domain and that field.
C2_ReadBack(x) ==
    LET walk == CanonicalWalk
        params == domain_params(Session)
    IN /\ Len(walk) = Len(x)
       /\ Len(params) = Len(x)
       /\ \A k \in 1..Len(x) :
           /\ objs[walk[k].id][walk[k].label] = x[k]
           /\ params[k] = <<name(objs[walk[k].id].cls), walk[k].label>>

C2_RoundTrip ==
    (last.op = "call" /\ last.err = "ok" /\ Len(last.x) = ExpectedLen(Session))
        => C2_ReadBack(last.x)

\* A call returned on a session of two domains, a chain and a cap, and the five
\* free fields hold five consecutive values in walk order.
C2_Witness ==
    /\ last.op = "call" /\ last.err = "ok"
    /\ Len(domains) = 2
    /\ Len(CanonicalWalk) = 5
    /\ \A k \in 1..5 :
        objs[CanonicalWalk[k].id][CanonicalWalk[k].label]
            = objs[CanonicalWalk[1].id][CanonicalWalk[1].label] + k - 1

\* C3: while every registered object is an IsingDomain, bounds and
\* domain_params have the same length, 3 per chain type and 2 per cap type, and
\* the bound at k is the ACCEPTABLE_BOUNDS entry of the slot that the label at
\* k of domain_params names.
C3_BoundsMatchParams ==
    PropertyError(Session) = "ok" =>
        /\ Len(bounds(Session)) = Len(domain_params(Session))
        /\ Len(bounds(Session)) =
              3 * Cardinality({k \in 1..Len(domain_types) : domain_types[k] \in ChainTypes})
            + 2 * Cardinality({k \in 1..Len(domain_types) : domain_types[k] \in CapTypes})
        /\ \A k \in 1..Len(bounds(Session)) :
            bounds(Session)[k] = ACCEPTABLE_BOUNDS[SlotOf(domain_params(Session)[k][2])]

\* Two appends succeeded and a cap type is registered before a chain type.
C3_Witness ==
    /\ Len(proteins) = 2
    /\ last.op = "append" /\ last.err = "ok"
    /\ Len(domain_types) = 2
    /\ domain_types[1] \in CapTypes
    /\ domain_types[2] \in ChainTypes
    /\ Len(bounds(Session)) = 5

\* C7: no recorded partition function has n = 0.
C7_NoEmptyPartition == \A p \in 1..Len(proteins) : proteins[p].n >= 1

\* C8: a call on a session without curves ends with ValueError and has written
\* no field of any object.
C8_EmptySessionCall ==
    [][(Len(proteins) = 0 /\ last'.op = "call")
        => (last'.err = "ValueError" /\ objs' = objs)]_vars

\* A call has failed on a session that has no curve but has a registered
\* domain whose fields it could have written.
C8_Witness ==
    /\ last.op = "call" /\ last.err = "ValueError"
    /\ Len(proteins) = 0
    /\ \E k \in 1..Len(domains) : IsIsingDomain(objs[domains[k]])

\* C10: an append that raises leaves proteins, domains and domain_types as they
\* were.
C10_FailedAppendUnchanged ==
    [][(last'.op = "append" /\ last'.err # "ok")
        => (proteins' = proteins /\ domains' = domains
            /\ domain_types' = domain_types)]_vars

C5_ThetaInUnitInterval ==
    (out.fn = "theta" /\ pf.n >= 1) =>
        /\ ~out.nan
        /\ RLe(RInt(0), out.value)
        /\ RLe(out.value, RInt(1))
        /\ partition(pf.topology, <<>>)[1] > 0
        /\ RLe(RInt(0), SumSub(pf.topology, pf.n))
        /\ RLe(SumSub(pf.topology, pf.n),
               RMul(RInt(pf.n), partition(pf.topology, <<>>)))

\* theta was evaluated on a chain domain followed by a cap domain and lies
\* strictly between 0 and 1.
C5_Witness ==
    /\ out.fn = "theta"
    /\ pf.n = 2
    /\ pf.topology[1].cls \in ChainTypes
    /\ pf.topology[2].cls \in CapTypes
    /\ out.value[1] > 0
    /\ out.value[1] < out.value[2]

\* C9: given a Jacobian with det(J^T J) = 0, the function does not raise and
\* returns one entry per column of the Jacobian, every entry +infinity.
C9_SingularGivesInfPerParameter ==
    (r_err.err # "none" /\ Det(JTJ(AsMatrix(jac))) = 0) =>
        /\ r_err.err = "ok"
        /\ Len(r_err.errors) = NCols(AsMatrix(jac))
        /\ \A p \in 1..Len(r_err.errors) : r_err.errors[p] = "inf"

Called(c) == \E i \in 1..Len(calls) : calls[i] = c

\* C6: a run is idle, then running, then converged or failed. After a search
\* that did not converge the run returns None, does not raise, and never
\* enters minimize or calculate_error_from_jacobian. After one that converged,
\* minimize is entered exactly when the result has no Jacobian, and it has
\* returned before calculate_error_from_jacobian is entered.
C6_FitStateMachine ==
    /\ fit.pc \in {"converged", "failed"} => calls[1] = "differential_evolution"
    /\ (fit.searched /\ ~fit.r.success) =>
        /\ fit.pc \in {"searched", "failed"}
        /\ ~Called("minimize")
        /\ ~Called("calculate_error_from_jacobian")
    /\ fit.pc = "failed" <=> fit.result = "None"
    /\ fit.pc = "failed" => (fit.searched /\ ~fit.r.success)
    /\ fit.pc = "converged" => (fit.searched /\ fit.r.success)
    /\ (fit.searched /\ fit.r.success /\ fit.pc # "searched") =>
        (Called("minimize") <=> ~fit.r.has_jac)
    /\ \A i \in 1..Len(calls) : calls[i] = "calculate_error_from_jacobian" =>
        /\ fit.r.success
        /\ Called("minimize") <=> ~fit.r.has_jac
        /\ Called("minimize") =>
            \E a, b \in 1..(i - 1) :
                a < b /\ calls[a] = "minimize" /\ calls[b] = "minimize returned"

\* A run converged through the local refinement: the search result had no
\* Jacobian, minimize ran and returned, then the errors were estimated.
C6_Witness ==
    /\ fit.pc = "converged"
    /\ ~fit.r.has_jac
    /\ calls = <<"differential_evolution", "minimize", "minimize returned",
                 "calculate_fit_residuals", "calculate_error_from_jacobian">>

====
